---- MODULE Spec2Model ----
(***************************************************************************)
(* Model of pyocd/target/builtin/target_GD32E230G8.py: the option-byte     *)
(* unlock / erase / program protocol of the GD32E230G8 target.             *)
(*                                                                         *)
(* A behaviour is any series of top-level calls (is_locked, _flash_unlock,  *)
(* _option_unlock, _option_erase, mass_erase) on one device.  Every memory *)
(* access of the code is one step and is appended to `trace`, which is     *)
(* cleared when a new top-level call starts.                               *)
(*                                                                         *)
(* 32-bit words are pairs <<high half, low half>> of 16-bit numbers, since *)
(* 0xCDEF89AB and 0xFFFFFFFD do not fit TLC's integers.  Time is counted   *)
(* in ticks of 0.1 time units (one sleep(0.1) is one tick).                *)
(*                                                                         *)
(* DescSpec is the second component: the FLASH_ALGO descriptor and the     *)
(* MEMORY_MAP, walked the way the flashing orchestrator consumes them      *)
(* (erase units listed from sector_sizes, pages programmed through the two *)
(* page buffers in turn).                                                  *)
(***************************************************************************)
EXTENDS Integers, Sequences, FiniteSets, TLC

VARIABLES
    pc,         \* call stack: sequence of code labels, current frame first
    op,         \* the top-level operation of the current / last call
    trace,      \* memory accesses of the current call, in program order
    ret,        \* return value of the function that returned last
    result,     \* "idle" | "running" | "returned" | "raised"
    exc,        \* message of the raised TargetError, "" if none
    log,        \* LOG.error messages of the current call
    eraser,     \* FlashEraser invocations of the current call
    ob_user,    \* mass_erase's local ob_user
    to_start,   \* start time of the active Timeout
    clock,      \* time elapsed since the call started, in ticks
    obstat,     \* device: value of FMC_OBSTAT
    obUser,     \* device: option-byte user word stored at 0x1FFFF802
    sectors,    \* orchestrator: erase units of the flash region listed so far
    pages       \* orchestrator: pages programmed so far, with the buffer used

vars == <<pc, op, trace, ret, result, exc, log, eraser, ob_user,
          to_start, clock, obstat, obUser, sectors, pages>>

----------------------------------------------------------------------------
(* Words and bit operations *)

W(hi, lo) == <<hi, lo>>

RECURSIVE And16(_, _)
And16(x, y) ==
    IF x = 0 \/ y = 0 THEN 0
    ELSE (x % 2) * (y % 2) + 2 * And16(x \div 2, y \div 2)

RECURSIVE Or16(_, _)
Or16(x, y) ==
    IF x = 0 THEN y
    ELSE IF y = 0 THEN x
    ELSE (IF x % 2 = 1 \/ y % 2 = 1 THEN 1 ELSE 0) + 2 * Or16(x \div 2, y \div 2)

And32(a, b) == W(And16(a[1], b[1]), And16(a[2], b[2]))
Or32(a, b) == W(Or16(a[1], b[1]), Or16(a[2], b[2]))
Zero32 == W(0, 0)

----------------------------------------------------------------------------
(* Module-level constants of the source *)

FMC_KEY == 1073881092       \* 0x40022004
FMC_OBKEY == 1073881096     \* 0x40022008
FMC_STAT == 1073881100      \* 0x4002200C
FMC_CTL == 1073881104       \* 0x40022010
FMC_OBSTAT == 1073881116    \* 0x4002201C

OBPG == W(0, 2^4)
OBER == W(0, 2^5)
START == W(0, 2^6)
OBWEN == W(0, 2^9)

BUSY == W(0, 2^0)

KEY1 == W(17767, 291)       \* 0x45670123
KEY2 == W(52719, 35243)     \* 0xCDEF89AB

\* FLASH_ERASE_TIMEOUT = 10.0, in ticks of 0.1
FLASH_ERASE_TIMEOUT == 100
\* sleep(0.1), in ticks of 0.1
SLEEP_TICKS == 1

OB_SPC_ADDR == 536868864    \* 0x1FFFF800
OB_USER_ADDR == 536868866   \* 0x1FFFF802
SPC_MAGIC == 23205          \* 0x5AA5
LOCK_MASK == 2              \* 0x2

----------------------------------------------------------------------------
(* FLASH_ALGO, lines 46-108, and MEMORY_MAP, lines 116-120 *)

load_address == 536870912           \* 0x20000000
\* number of words of 'instructions' (lines 51-70); the words are opaque
instructions_len == 152

pc_init == 536870917                \* 0x20000005
pc_unInit == 536871057              \* 0x20000091
pc_program_page == 536871249        \* 0x20000151
pc_erase_sector == 536871157        \* 0x200000f5
pc_eraseAll == 536871085            \* 0x200000ad

\* a slip: the static base put in the data area
static_base_InData == 536870912 + 4096 + 596
static_base == 536870912 + 4 + 596  \* 0x20000000 + 0x00000004 + 0x00000254
begin_stack == 536877664            \* 0x20001a60
end_stack == 536873568              \* 0x20000a60
begin_data == 536870912 + 4096      \* 0x20000000 + 0x1000
page_size == 1024                   \* 0x400

\* a slip: the second buffer half a page after the first
page_buffers_HalfPage == <<536871520, 536872032>>
page_buffers == <<536871520, 536872544>>    \* 0x20000260, 0x20000660
min_program_length == 1024          \* 0x400

flash_start == 134217728            \* 0x8000000
flash_size == 65536                 \* 0x10000
\* a slip: a sector size that does not divide the flash size
sector_sizes_Odd == << <<0, 768>> >>
\* (start offset, sector size) pairs
sector_sizes == << <<0, 1024>> >>

\* FlashRegion(start=0x08000000, length=0x10000, blocksize=0x400, ...)
FlashRegion == [start |-> 134217728, length |-> 65536, blocksize |-> 1024]
\* RamRegion(start=0x20000000, length=0x2000)
RamRegion == [start |-> 536870912, length |-> 8192]

----------------------------------------------------------------------------
(* The device and the inputs *)

\* values of FMC_OBSTAT: 0x0, 0x1, 0x2, 0xFFFFFFFD, 0xFFFFFFFF
ObstatValues == {W(0, 0), W(0, 1), W(0, 2), W(65535, 65533), W(65535, 65535)}

\* values of the option-byte user word; an erased option byte reads all ones
ERASED16 == 2^16 - 1
UserWords == {255, ERASED16}

\* values a read of FMC_STAT can give: busy (0x1), or idle with the
\* end-of-operation flag set (0x20)
FmcStatValues == {W(0, 1), W(0, 32)}

Ops == {"is_locked", "_flash_unlock", "_option_unlock", "_option_erase", "mass_erase"}

Entry(o) ==
    CASE o = "is_locked" -> "il130"
      [] o = "_flash_unlock" -> "fu135"
      [] o = "_option_unlock" -> "ou139"
      [] o = "_option_erase" -> "oe146"
      [] o = "mass_erase" -> "me165"

----------------------------------------------------------------------------
(* Collaborators: memory access primitives, the device, Timeout *)

Access(kind, addr, val) == [kind |-> kind, addr |-> addr, val |-> val]

IsWrite(a) == a.kind \in {"write32", "write16"}

\* the option-byte user word after a 32-bit register write: a control
\* register write with the option-byte-erase and start bits set erases
\* the option bytes
DevAfterWrite32(addr, val, cur) ==
    IF addr = FMC_CTL /\ And32(val, Or32(OBER, START)) = Or32(OBER, START)
    THEN ERASED16
    ELSE cur

\* the option-byte user word after a 16-bit write
DevAfterWrite16(addr, val, cur) == IF addr = OB_USER_ADDR THEN val ELSE cur

\* self.write32(addr, val)
write32(addr, val) ==
    /\ trace' = Append(trace, Access("write32", addr, val))
    /\ obUser' = DevAfterWrite32(addr, val, obUser)

\* self.write16(addr, val)
write16(addr, val) ==
    /\ trace' = Append(trace, Access("write16", addr, W(0, val)))
    /\ obUser' = DevAfterWrite16(addr, val, obUser)

\* status = self.read32(addr), where the device answers val
read32(addr, val) ==
    /\ trace' = Append(trace, Access("read32", addr, val))
    /\ obUser' = obUser

\* Timeout.check(): true until more than the timeout has elapsed
TimeoutCheck(start, now) == ~((now - start) > FLASH_ERASE_TIMEOUT)

----------------------------------------------------------------------------
(* Control flow helpers *)

At(l) == pc # <<>> /\ Head(pc) = l
Goto(l) == pc' = <<l>> \o Tail(pc)
\* call the function starting at entry; continue at back when it returns
CallFn(entry, back) == pc' = <<entry, back>> \o Tail(pc)

Return(v) ==
    /\ pc' = Tail(pc)
    /\ ret' = v
    /\ result' = IF Len(pc) = 1 THEN "returned" ELSE result

\* raise exceptions.TargetError(msg): no frame of this file catches it
Raise(msg) ==
    /\ pc' = <<>>
    /\ result' = "raised"
    /\ exc' = msg

NoDev == UNCHANGED <<obstat, obUser>>
NoLocals == UNCHANGED <<ob_user, to_start, clock>>
NoOut == UNCHANGED <<exc, log, eraser>>
\* same call; the register protocol never touches the orchestrator's state
NoCall == UNCHANGED <<op, sectors, pages>>

----------------------------------------------------------------------------
(* Pure tests of the code *)

\* a bug: the whole word compared with the mask instead of the bit tested
LockedTest_Equality(status) == status = W(0, LOCK_MASK)

\* (status & 0x2) != 0
LockedTest(status) == And32(status, W(0, LOCK_MASK)) # Zero32

\* a bug: the whole status word compared with zero instead of the busy bit
BusyClear_WholeWord(status) == status = Zero32

\* (status & BUSY) == 0
BusyClear(status) == And32(status, BUSY) = Zero32

Bool(b) == IF b THEN "True" ELSE "False"

----------------------------------------------------------------------------
(* Initial state and the start of a call *)

Init ==
    /\ pc = <<>>
    /\ op = "none"
    /\ trace = <<>>
    /\ ret = "None"
    /\ result = "idle"
    /\ exc = ""
    /\ log = <<>>
    /\ eraser = <<>>
    /\ ob_user = 0
    /\ to_start = 0
    /\ clock = 0
    /\ obstat \in ObstatValues
    /\ obUser \in UserWords
    /\ sectors = <<>>
    /\ pages = <<>>

\* a caller invokes one of the target's methods on the device as the
\* previous call left it
Call ==
    /\ pc = <<>>
    /\ \E o \in Ops :
        /\ op' = o
        /\ pc' = <<Entry(o)>>
    /\ trace' = <<>>
    /\ ret' = "None"
    /\ result' = "running"
    /\ exc' = ""
    /\ log' = <<>>
    /\ eraser' = <<>>
    /\ ob_user' = 0
    /\ to_start' = 0
    /\ clock' = 0
    /\ UNCHANGED <<obstat, obUser, sectors, pages>>

----------------------------------------------------------------------------
(* is_locked, lines 129-131 *)

is_locked ==
    /\ At("il130")
    /\ read32(FMC_OBSTAT, obstat)
    /\ Return(Bool(LockedTest(obstat)))
    /\ UNCHANGED obstat
    /\ NoLocals /\ NoOut /\ NoCall

----------------------------------------------------------------------------
(* _flash_unlock, lines 133-136 *)

\* a bug: the keys in the wrong order
flash_unlock_135_Key2First ==
    /\ At("fu135")
    /\ write32(FMC_KEY, KEY2)
    /\ Goto("fu136")
    /\ UNCHANGED <<ret, result, obstat>>
    /\ NoLocals /\ NoOut /\ NoCall

flash_unlock_135 ==
    /\ At("fu135")
    /\ write32(FMC_KEY, KEY1)
    /\ Goto("fu136")
    /\ UNCHANGED <<ret, result, obstat>>
    /\ NoLocals /\ NoOut /\ NoCall

flash_unlock_136 ==
    /\ At("fu136")
    /\ write32(FMC_KEY, KEY2)
    /\ Return("None")
    /\ UNCHANGED obstat
    /\ NoLocals /\ NoOut /\ NoCall

----------------------------------------------------------------------------
(* _option_unlock, lines 138-143 *)

\* a bug: the option-byte keys written without unlocking the controller first
option_unlock_139_SkipFlashUnlock ==
    /\ At("ou139")
    /\ Goto("ou142")
    /\ UNCHANGED <<trace, ret, result>>
    /\ NoDev /\ NoLocals /\ NoOut /\ NoCall

option_unlock_139 ==
    /\ At("ou139")
    /\ CallFn("fu135", "ou142")
    /\ UNCHANGED <<trace, ret, result>>
    /\ NoDev /\ NoLocals /\ NoOut /\ NoCall

option_unlock_142 ==
    /\ At("ou142")
    /\ write32(FMC_OBKEY, KEY1)
    /\ Goto("ou143")
    /\ UNCHANGED <<ret, result, obstat>>
    /\ NoLocals /\ NoOut /\ NoCall

option_unlock_143 ==
    /\ At("ou143")
    /\ write32(FMC_OBKEY, KEY2)
    /\ Return("None")
    /\ UNCHANGED obstat
    /\ NoLocals /\ NoOut /\ NoCall


----------------------------------------------------------------------------
(* _option_erase, lines 145-162 *)

option_erase_146 ==
    /\ At("oe146")
    /\ CallFn("ou139", "oe148")
    /\ UNCHANGED <<trace, ret, result>>
    /\ NoDev /\ NoLocals /\ NoOut /\ NoCall

\* a bug: the start bit set already in the first control write
option_erase_148_WithStart ==
    /\ At("oe148")
    /\ write32(FMC_CTL, Or32(Or32(OBER, OBWEN), START))
    /\ Goto("oe149")
    /\ UNCHANGED <<ret, result, obstat>>
    /\ NoLocals /\ NoOut /\ NoCall

option_erase_148 ==
    /\ At("oe148")
    /\ write32(FMC_CTL, Or32(OBER, OBWEN))
    /\ Goto("oe149")
    /\ UNCHANGED <<ret, result, obstat>>
    /\ NoLocals /\ NoOut /\ NoCall

option_erase_149 ==
    /\ At("oe149")
    /\ write32(FMC_CTL, Or32(Or32(OBER, OBWEN), START))
    /\ Goto("oe151")
    /\ UNCHANGED <<ret, result, obstat>>
    /\ NoLocals /\ NoOut /\ NoCall

\* with Timeout(FLASH_ERASE_TIMEOUT) as to:
option_erase_151 ==
    /\ At("oe151")
    /\ to_start' = clock
    /\ Goto("oe152")
    /\ UNCHANGED <<trace, ret, result, ob_user, clock>>
    /\ NoDev /\ NoOut /\ NoCall

\* a bug: the Timeout made anew in every turn of the loop, so it never expires
option_erase_152_TimeoutRestarted ==
    /\ At("oe152")
    /\ \E status \in FmcStatValues :
        /\ read32(FMC_STAT, status)
        /\ IF BusyClear(status)
           THEN Return("True") /\ UNCHANGED <<clock, to_start>>
           ELSE /\ Goto("oe152")
                /\ clock' = clock + SLEEP_TICKS
                /\ to_start' = clock + SLEEP_TICKS
                /\ UNCHANGED <<ret, result>>
    /\ UNCHANGED <<ob_user, obstat>>
    /\ NoOut /\ NoCall

\* one turn of the poll loop, lines 152-156, and the return True it breaks to:
\*   while to.check():
\*       status = self.read32(FMC_STAT)
\*       if (status & BUSY) == 0: break
\*       sleep(0.1)
\*   else: (line 159)
option_erase_152 ==
    /\ At("oe152")
    /\ IF TimeoutCheck(to_start, clock)
       THEN \E status \in FmcStatValues :
            /\ read32(FMC_STAT, status)
            /\ IF BusyClear(status)
               THEN Return("True") /\ clock' = clock
               ELSE /\ Goto("oe152")
                    /\ clock' = clock + SLEEP_TICKS
                    /\ UNCHANGED <<ret, result>>
       ELSE /\ Goto("oe159")
            /\ UNCHANGED <<trace, ret, result, clock, obUser>>
    /\ UNCHANGED <<ob_user, to_start, obstat>>
    /\ NoOut /\ NoCall

\* LOG.error("Option byte erase timeout"); return False
option_erase_159 ==
    /\ At("oe159")
    /\ log' = Append(log, "Option byte erase timeout")
    /\ Return("False")
    /\ UNCHANGED <<trace, exc, eraser>>
    /\ NoDev /\ NoLocals /\ NoCall

----------------------------------------------------------------------------
(* mass_erase, lines 164-192 *)

\* if self.is_locked():
mass_erase_165 ==
    /\ At("me165")
    /\ CallFn("il130", "me165b")
    /\ UNCHANGED <<trace, ret, result>>
    /\ NoDev /\ NoLocals /\ NoOut /\ NoCall

mass_erase_165b ==
    /\ At("me165b")
    /\ IF ret = "True" THEN Goto("me167") ELSE Goto("me190")
    /\ UNCHANGED <<trace, ret, result>>
    /\ NoDev /\ NoLocals /\ NoOut /\ NoCall

\* ob_user = self.read16(0x1FFFF802)
mass_erase_167 ==
    /\ At("me167")
    /\ trace' = Append(trace, Access("read16", OB_USER_ADDR, W(0, obUser)))
    /\ ob_user' = obUser
    /\ Goto("me169")
    /\ UNCHANGED <<ret, result, to_start, clock>>
    /\ NoDev /\ NoOut /\ NoCall

\* if not self._option_erase():
mass_erase_169 ==
    /\ At("me169")
    /\ CallFn("oe146", "me169b")
    /\ UNCHANGED <<trace, ret, result>>
    /\ NoDev /\ NoLocals /\ NoOut /\ NoCall

\* a bug: the failure logged and mass_erase left with a plain return
mass_erase_169b_SilentReturn ==
    /\ At("me169b")
    /\ IF ret = "False"
       THEN /\ log' = Append(log, "option byte unlock fail")
            /\ pc' = Tail(pc)
            /\ result' = "returned"
            /\ UNCHANGED exc
       ELSE /\ Goto("me173")
            /\ UNCHANGED <<log, exc, result>>
    /\ UNCHANGED <<trace, ret, eraser>>
    /\ NoDev /\ NoLocals /\ NoCall

\* a bug: the option-byte erase tried again after it failed
mass_erase_169b_Retry ==
    /\ At("me169b")
    /\ IF ret = "False"
       THEN /\ log' = Append(log, "option byte unlock fail")
            /\ Goto("me169")
       ELSE /\ Goto("me173")
            /\ UNCHANGED log
    /\ UNCHANGED <<trace, ret, eraser, exc, result>>
    /\ NoDev /\ NoLocals /\ NoCall

\* a bug: the failure logged but not raised
mass_erase_169b_NoRaise ==
    /\ At("me169b")
    /\ log' = (IF ret = "False" THEN Append(log, "option byte unlock fail") ELSE log)
    /\ Goto("me173")
    /\ UNCHANGED <<trace, ret, result, exc, eraser>>
    /\ NoDev /\ NoLocals /\ NoCall

\* ... LOG.error(...); raise exceptions.TargetError("unable to unlock device")
mass_erase_169b ==
    /\ At("me169b")
    /\ IF ret = "False"
       THEN /\ log' = Append(log, "option byte unlock fail")
            /\ Raise("unable to unlock device")
       ELSE /\ Goto("me173")
            /\ UNCHANGED <<log, exc, result>>
    /\ UNCHANGED <<trace, ret, eraser>>
    /\ NoDev /\ NoLocals /\ NoCall

\* a bug: the second unlock left out
mass_erase_173_NoUnlock ==
    /\ At("me173")
    /\ Goto("me174")
    /\ UNCHANGED <<trace, ret, result>>
    /\ NoDev /\ NoLocals /\ NoOut /\ NoCall

\* self._option_unlock()
mass_erase_173 ==
    /\ At("me173")
    /\ CallFn("ou139", "me174")
    /\ UNCHANGED <<trace, ret, result>>
    /\ NoDev /\ NoLocals /\ NoOut /\ NoCall

\* self.write32(FMC_CTL, OBPG | OBWEN)
mass_erase_174 ==
    /\ At("me174")
    /\ write32(FMC_CTL, Or32(OBPG, OBWEN))
    /\ Goto("me176")
    /\ UNCHANGED <<ret, result, obstat>>
    /\ NoLocals /\ NoOut /\ NoCall

\* a bug: the user word written before the magic value
mass_erase_176_UserFirst ==
    /\ At("me176")
    /\ write16(OB_USER_ADDR, ob_user)
    /\ Goto("me177")
    /\ UNCHANGED <<ret, result, obstat>>
    /\ NoLocals /\ NoOut /\ NoCall

\* self.write16(0x1FFFF800, 0x5AA5)
mass_erase_176 ==
    /\ At("me176")
    /\ write16(OB_SPC_ADDR, SPC_MAGIC)
    /\ Goto("me177")
    /\ UNCHANGED <<ret, result, obstat>>
    /\ NoLocals /\ NoOut /\ NoCall

\* a bug: the magic value written to the user word too
mass_erase_177_WritesMagic ==
    /\ At("me177")
    /\ write16(OB_USER_ADDR, SPC_MAGIC)
    /\ Goto("me179")
    /\ UNCHANGED <<ret, result, obstat>>
    /\ NoLocals /\ NoOut /\ NoCall

\* self.write16(0x1FFFF802, ob_user)
mass_erase_177 ==
    /\ At("me177")
    /\ write16(OB_USER_ADDR, ob_user)
    /\ Goto("me179")
    /\ UNCHANGED <<ret, result, obstat>>
    /\ NoLocals /\ NoOut /\ NoCall

\* with Timeout(FLASH_ERASE_TIMEOUT) as to:
mass_erase_179 ==
    /\ At("me179")
    /\ to_start' = clock
    /\ Goto("me180")
    /\ UNCHANGED <<trace, ret, result, ob_user, clock>>
    /\ NoDev /\ NoOut /\ NoCall

\* a bug: the control register cleared when the poll gives up
mass_erase_180_AbortWrite ==
    /\ At("me180")
    /\ IF TimeoutCheck(to_start, clock)
       THEN \E status \in FmcStatValues :
            /\ read32(FMC_STAT, status)
            /\ IF BusyClear(status)
               THEN Return("None") /\ clock' = clock
               ELSE /\ Goto("me180")
                    /\ clock' = clock + SLEEP_TICKS
                    /\ UNCHANGED <<ret, result>>
       ELSE /\ write32(FMC_CTL, Zero32)
            /\ Goto("me187")
            /\ UNCHANGED <<ret, result, clock>>
    /\ UNCHANGED <<ob_user, to_start, obstat>>
    /\ NoOut /\ NoCall

\* one turn of the poll loop, lines 180-184; the break ends mass_erase:
\*   while to.check():
\*       status = self.read32(FMC_STAT)
\*       if (status & BUSY) == 0: break
\*       sleep(0.1)
\*   else: (line 186)
mass_erase_180 ==
    /\ At("me180")
    /\ IF TimeoutCheck(to_start, clock)
       THEN \E status \in FmcStatValues :
            /\ read32(FMC_STAT, status)
            /\ IF BusyClear(status)
               THEN Return("None") /\ clock' = clock
               ELSE /\ Goto("me180")
                    /\ clock' = clock + SLEEP_TICKS
                    /\ UNCHANGED <<ret, result>>
       ELSE /\ Goto("me187")
            /\ UNCHANGED <<trace, ret, result, clock, obUser>>
    /\ UNCHANGED <<ob_user, to_start, obstat>>
    /\ NoOut /\ NoCall

\* a bug: the generic chip erase tried when the programming poll times out
mass_erase_187_Fallback ==
    /\ At("me187")
    /\ log' = Append(log, "mass erase failed")
    /\ eraser' = Append(eraser, [mode |-> "CHIP", log_chip_erase |-> FALSE])
    /\ Return("None")
    /\ UNCHANGED <<trace, exc>>
    /\ NoDev /\ NoLocals /\ NoCall

\* a bug: the programming timeout logged but swallowed
mass_erase_187_Swallow ==
    /\ At("me187")
    /\ log' = Append(log, "mass erase failed")
    /\ Return("None")
    /\ UNCHANGED <<trace, exc, eraser>>
    /\ NoDev /\ NoLocals /\ NoCall

\* LOG.error(...); raise exceptions.TargetError("unable to unlock device")
mass_erase_187 ==
    /\ At("me187")
    /\ log' = Append(log, "mass erase failed")
    /\ Raise("unable to unlock device")
    /\ UNCHANGED <<trace, ret, eraser>>
    /\ NoDev /\ NoLocals /\ NoCall

\* a bug: the eraser's completion logging left on
mass_erase_190_KeepsLogging ==
    /\ At("me190")
    /\ eraser' = Append(eraser, [mode |-> "CHIP", log_chip_erase |-> TRUE])
    /\ Return("None")
    /\ UNCHANGED <<trace, exc, log>>
    /\ NoDev /\ NoLocals /\ NoCall

\* eraser = FlashEraser(self.session, FlashEraser.Mode.CHIP)
\* eraser._log_chip_erase = False; eraser.erase()
mass_erase_190 ==
    /\ At("me190")
    /\ eraser' = Append(eraser, [mode |-> "CHIP", log_chip_erase |-> FALSE])
    /\ Return("None")
    /\ UNCHANGED <<trace, exc, log>>
    /\ NoDev /\ NoLocals /\ NoCall

----------------------------------------------------------------------------
(* Specification *)

Next ==
    \/ Call
    \/ is_locked
    \/ flash_unlock_135
    \/ flash_unlock_136
    \/ option_unlock_139
    \/ option_unlock_142
    \/ option_unlock_143
    \/ option_erase_146
    \/ option_erase_148
    \/ option_erase_149
    \/ option_erase_151
    \/ option_erase_152
    \/ option_erase_159
    \/ mass_erase_165
    \/ mass_erase_165b
    \/ mass_erase_167
    \/ mass_erase_169
    \/ mass_erase_169b
    \/ mass_erase_173
    \/ mass_erase_174
    \/ mass_erase_176
    \/ mass_erase_177
    \/ mass_erase_179
    \/ mass_erase_180
    \/ mass_erase_187
    \/ mass_erase_190

Spec == Init /\ [][Next]_vars

----------------------------------------------------------------------------
(* The orchestrator's use of the descriptor *)

RECURSIVE SumSizes(_)
SumSizes(q) == IF q = <<>> THEN 0 ELSE Head(q).size + SumSizes(Tail(q))

\* the sector size in force at an offset of the flash region: that of the
\* last (offset, size) pair of sector_sizes starting at or before it
SectorSizeAt(off) ==
    LET at == {i \in 1..Len(sector_sizes) : sector_sizes[i][1] <= off}
        i == CHOOSE k \in at : \A j \in at : j <= k
    IN  sector_sizes[i][2]

\* the next erase unit of the flash region is listed
EnumerateSector ==
    /\ SumSizes(sectors) < flash_size
    /\ sectors' = Append(sectors,
            [start |-> flash_start + SumSizes(sectors),
             size |-> SectorSizeAt(SumSizes(sectors))])
    /\ UNCHANGED <<pc, op, trace, ret, result, exc, log, eraser, ob_user,
                   to_start, clock, obstat, obUser, pages>>

\* the next page is programmed from the page buffer whose turn it is
ProgramPage ==
    /\ Len(pages) * page_size < flash_size
    /\ pages' = Append(pages,
            [addr |-> flash_start + Len(pages) * page_size,
             buffer |-> page_buffers[(Len(pages) % Len(page_buffers)) + 1],
             length |-> page_size])
    /\ UNCHANGED <<pc, op, trace, ret, result, exc, log, eraser, ob_user,
                   to_start, clock, obstat, obUser, sectors>>

DescNext ==
    \/ EnumerateSector
    \/ ProgramPage

\* the descriptor is walked with the target idle; the device's registers
\* play no part in it
DescInit ==
    /\ Init
    /\ obstat = W(0, 0)
    /\ obUser = ERASED16

DescSpec == DescInit /\ [][DescNext]_vars

----------------------------------------------------------------------------
(* Vocabulary of the properties *)

\* bit n of a 16-bit number
Bit(v, n) == (v \div (2^n)) % 2

IsPrefix(s, t) == Len(s) <= Len(t) /\ s = SubSeq(t, 1, Len(s))

Idx == 1..Len(trace)
WriteIdx == {i \in Idx : IsWrite(trace[i])}
Writes == SelectSeq(trace, IsWrite)

W32(addr, val) == Access("write32", addr, val)
W16(addr, val) == Access("write16", addr, W(0, val))

\* the accesses of one _flash_unlock and of one _option_unlock
FlashUnlockSeq == <<W32(FMC_KEY, KEY1), W32(FMC_KEY, KEY2)>>
OptionUnlockSeq == FlashUnlockSeq \o <<W32(FMC_OBKEY, KEY1), W32(FMC_OBKEY, KEY2)>>

\* control register patterns, written out bit by bit: 0x220, 0x260, 0x210
CtlErase == W(0, 544)
CtlEraseStart == W(0, 608)
CtlProgram == W(0, 528)

\* the writes of one _option_erase
OptionEraseWrites == OptionUnlockSeq \o <<W32(FMC_CTL, CtlErase), W32(FMC_CTL, CtlEraseStart)>>

\* reads of FMC_STAT in the trace, and whether each saw the busy bit
StatReadIdx == {i \in Idx : trace[i].kind = "read32" /\ trace[i].addr = FMC_STAT}
SawBusy(i) == Bit(trace[i].val[2], 0) = 1

\* mass_erase took the locked branch: its is_locked read saw bit 1 set
InLockedBranch ==
    /\ op = "mass_erase"
    /\ Len(trace) >= 1
    /\ trace[1].addr = FMC_OBSTAT
    /\ Bit(trace[1].val[2], 1) = 1

----------------------------------------------------------------------------
(* C1 *)

\* C1: mass_erase() on a locked device reads the user-option word once,
\* before any write; the only write to 0x1FFFF802 carries the value read and
\* comes after the write of 0x5AA5 to 0x1FFFF800; when mass_erase returns,
\* the device's user-option word equals the value read at the start.
C1_UserWordRoundTrip ==
    op = "mass_erase" =>
        LET rd == {i \in Idx : trace[i].kind = "read16" /\ trace[i].addr = OB_USER_ADDR}
            wr == {i \in Idx : trace[i].kind = "write16" /\ trace[i].addr = OB_USER_ADDR}
            magic == {i \in Idx : trace[i] = W16(OB_SPC_ADDR, 23205)}
        IN  /\ Cardinality(rd) <= 1
            /\ Cardinality(wr) <= 1
            /\ \A w \in WriteIdx : \E r \in rd : r < w
            /\ \A w \in wr :
                /\ \E r \in rd : trace[w].val = trace[r].val
                /\ \E m \in magic : m < w
            /\ (InLockedBranch /\ result = "returned") =>
                /\ Cardinality(rd) = 1
                /\ Cardinality(wr) = 1
                /\ \A r \in rd : obUser = trace[r].val[2]

\* a locked mass_erase has returned after restoring a user word that the
\* option-byte erase had wiped
C1_Witness ==
    /\ InLockedBranch
    /\ result = "returned"
    /\ ob_user = 255
    /\ obUser = 255

----------------------------------------------------------------------------
(* C2 *)

\* C2: when _option_erase fails inside a locked mass_erase, mass_erase
\* raises TargetError and makes no further access: the trace ends with the
\* last busy read of the erase poll and holds only _option_erase's writes.
C2_NoWritesAfterEraseFailure ==
    (op = "mass_erase" /\ log # <<>> /\ log[1] = "Option byte erase timeout") =>
        /\ Writes = OptionEraseWrites
        /\ trace[Len(trace)].kind = "read32"
        /\ trace[Len(trace)].addr = FMC_STAT
        /\ pc \in {<<"me169b">>, <<>>}
        /\ pc = <<>> =>
            /\ result = "raised"
            /\ exc = "unable to unlock device"

C2_Witness ==
    /\ op = "mass_erase"
    /\ result = "raised"
    /\ log = <<"Option byte erase timeout", "option byte unlock fail">>

----------------------------------------------------------------------------
(* C3 *)

\* C3: _option_erase writes the control register exactly twice, first
\* OBER|OBWEN and then OBER|OBWEN|START; when the busy bit stays set until
\* the timeout expires it returns False and the last access is the last
\* status read.
C3_OptionEraseControlWrites ==
    op = "_option_erase" =>
        LET ctl == SelectSeq(trace, LAMBDA a : IsWrite(a) /\ a.addr = FMC_CTL)
        IN  /\ IsPrefix(ctl, <<W32(FMC_CTL, CtlErase), W32(FMC_CTL, CtlEraseStart)>>)
            /\ IsPrefix(Writes, OptionEraseWrites)
            /\ result = "returned" => Len(ctl) = 2
            /\ (result = "returned" /\ \A i \in StatReadIdx : SawBusy(i)) =>
                /\ ret = "False"
                /\ clock - to_start > 100
                /\ Len(trace) = 6 + Cardinality(StatReadIdx)
                /\ IsPrefix(OptionEraseWrites, trace)

C3_Witness ==
    /\ op = "_option_erase"
    /\ result = "returned"
    /\ ret = "False"
    /\ Cardinality(StatReadIdx) > 100

----------------------------------------------------------------------------
(* C4 *)

\* C4: mass_erase() on a device that is not locked hands over to the
\* FlashEraser in CHIP mode with _log_chip_erase False, and itself accesses
\* none of the key, option-byte key, control, status registers or the
\* option bytes: its only access is is_locked's read of FMC_OBSTAT.
C4_NotLockedDelegates ==
    (op = "mass_erase" /\ Len(trace) >= 1 /\ Bit(trace[1].val[2], 1) = 0) =>
        /\ \A i \in Idx :
            trace[i].addr \notin {FMC_KEY, FMC_OBKEY, FMC_CTL, FMC_STAT, OB_SPC_ADDR, OB_USER_ADDR}
        /\ Len(trace) = 1
        /\ result # "raised"
        /\ result = "returned" => eraser = <<[mode |-> "CHIP", log_chip_erase |-> FALSE]>>

C4_Witness ==
    /\ op = "mass_erase"
    /\ result = "returned"
    /\ eraser # <<>>
    /\ trace = <<Access("read32", FMC_OBSTAT, W(65535, 65533))>>

----------------------------------------------------------------------------
(* C5 *)

\* C5: is_locked() makes exactly one access, a read of FMC_OBSTAT, returns
\* True iff bit 1 of the value read is set whatever the other bits are, and
\* leaves the device unchanged.
C5_IsLockedBit1 ==
    [][At("il130") =>
        /\ trace' = Append(trace, Access("read32", FMC_OBSTAT, obstat))
        /\ ret' = (IF Bit(obstat[2], 1) = 1 THEN "True" ELSE "False")
        /\ pc' = Tail(pc)
        /\ obstat' = obstat
        /\ obUser' = obUser]_vars

C5_Witness ==
    /\ op = "is_locked"
    /\ result = "returned"
    /\ ret = "False"
    /\ trace = <<Access("read32", FMC_OBSTAT, W(65535, 65533))>>

----------------------------------------------------------------------------
(* C6 *)

\* C6: _flash_unlock() makes exactly two accesses, the writes of KEY1 and
\* then KEY2 to FMC_KEY, whatever the device went through before.
C6_FlashUnlockTwoWrites ==
    op = "_flash_unlock" =>
        /\ IsPrefix(trace, FlashUnlockSeq)
        /\ result # "raised"
        /\ result = "returned" => trace = FlashUnlockSeq

C6_Witness ==
    /\ op = "_flash_unlock"
    /\ result = "returned"
    /\ obUser = 65535
    /\ obstat = W(65535, 65535)

----------------------------------------------------------------------------
(* C7 *)

\* C7: _option_unlock() makes exactly four accesses: KEY1, KEY2 to FMC_KEY
\* and only then KEY1, KEY2 to FMC_OBKEY.
C7_OptionUnlockOrder ==
    op = "_option_unlock" =>
        /\ IsPrefix(trace, OptionUnlockSeq)
        /\ result # "raised"
        /\ result = "returned" => trace = OptionUnlockSeq
        /\ \A i \in Idx : trace[i].addr = FMC_OBKEY =>
            /\ i > 2
            /\ trace[1] = W32(FMC_KEY, KEY1)
            /\ trace[2] = W32(FMC_KEY, KEY2)

C7_Witness ==
    /\ op = "_option_unlock"
    /\ result = "returned"
    /\ Len(trace) = 4

----------------------------------------------------------------------------
(* C8 *)

InStack(l) == \E i \in 1..Len(pc) : pc[i] = l

\* the state of the locked branch's state machine that a program state is in
Phase ==
    IF pc = <<>> THEN
        IF result = "returned" THEN "Done"
        ELSE IF log # <<>> /\ log[Len(log)] = "mass erase failed" THEN "ProgramTimeout"
        ELSE "OptionEraseTimeout"
    ELSE IF Head(pc) \in {"me165", "me165b", "me167"} \/ InStack("me165b") THEN "Locked"
    ELSE IF Head(pc) \in {"me169", "oe146"} \/ InStack("oe148") THEN "OptionEraseUnlocking"
    ELSE IF Head(pc) \in {"oe148", "oe149"} THEN "OptionErasing"
    ELSE IF Head(pc) \in {"oe151", "oe152"} THEN "OptionEraseBusyPoll"
    ELSE IF Head(pc) = "oe159" THEN "OptionEraseTimeout"
    ELSE IF Head(pc) = "me169b" THEN
        (IF ret = "True" THEN "OptionEraseOk" ELSE "OptionEraseTimeout")
    ELSE IF Head(pc) = "me173" \/ InStack("me174") THEN "ProgramUnlocking"
    ELSE IF Head(pc) \in {"me174", "me176", "me177"} THEN "ProgramWriting"
    ELSE IF Head(pc) \in {"me179", "me180"} THEN "ProgramBusyPoll"
    ELSE IF Head(pc) = "me187" THEN "ProgramTimeout"
    ELSE "NotLocked"

PhaseSucc ==
    { <<"Locked", "OptionEraseUnlocking">>,
      <<"OptionEraseUnlocking", "OptionErasing">>,
      <<"OptionErasing", "OptionEraseBusyPoll">>,
      <<"OptionEraseBusyPoll", "OptionEraseOk">>,
      <<"OptionEraseBusyPoll", "OptionEraseTimeout">>,
      <<"OptionEraseOk", "ProgramUnlocking">>,
      <<"ProgramUnlocking", "ProgramWriting">>,
      <<"ProgramWriting", "ProgramBusyPoll">>,
      <<"ProgramBusyPoll", "Done">>,
      <<"ProgramBusyPoll", "ProgramTimeout">> }

\* C8: in the locked branch of mass_erase every step stays in its state or
\* moves to a successor in the chain Locked -> OptionEraseUnlocking ->
\* OptionErasing -> OptionEraseBusyPoll -> {OptionEraseOk | OptionEraseTimeout}
\* -> ProgramUnlocking -> ProgramWriting -> ProgramBusyPoll -> {Done |
\* ProgramTimeout}; the chain has no way back, so no state is entered twice;
\* the call ends in a timeout state only by raising TargetError, and returns
\* normally only out of ProgramBusyPoll after a status read with busy clear.
C8_LockedBranchStateMachine ==
    [][(InLockedBranch /\ pc # <<>>) =>
        /\ Phase' = Phase \/ <<Phase, Phase'>> \in PhaseSucc
        /\ Phase' # "NotLocked"
        /\ (pc' = <<>> /\ Phase' \in {"OptionEraseTimeout", "ProgramTimeout"}) =>
            /\ result' = "raised"
            /\ exc' = "unable to unlock device"
        /\ (pc # <<>> /\ result' = "returned") =>
            /\ Phase = "ProgramBusyPoll"
            /\ Bit(trace'[Len(trace')].val[2], 0) = 0
            /\ Len(Writes') = 13]_vars

C8_Witness ==
    /\ InLockedBranch
    /\ Phase = "ProgramTimeout"
    /\ pc = <<>>

----------------------------------------------------------------------------
(* C9 *)

\* a control register write with the start bit set
IsTrigger(a) == a.kind = "write32" /\ a.addr = FMC_CTL /\ Bit(a.val[2], 6) = 1

\* the four key writes of an option-byte unlock are at trace[j..j+3]
UnlockAt(j) == j + 3 <= Len(trace) /\ SubSeq(trace, j, j + 3) = OptionUnlockSeq

\* C9: in _option_erase and in mass_erase, every write to the control
\* register and every write to the option bytes at 0x1FFFF800/0x1FFFF802
\* comes after a complete unlock (KEY1, KEY2 to FMC_KEY, then KEY1, KEY2 to
\* FMC_OBKEY) that was made after the latest earlier start-bit write.
C9_UnlockBeforeTrigger ==
    op \in {"_option_erase", "mass_erase"} =>
        \A i \in WriteIdx :
            trace[i].addr \in {FMC_CTL, OB_SPC_ADDR, OB_USER_ADDR} =>
                LET trig == {t \in 1..(i - 1) : IsTrigger(trace[t])}
                    last == IF trig = {} THEN 0
                            ELSE CHOOSE t \in trig : \A u \in trig : u <= t
                IN  \E j \in (last + 1)..(i - 4) : UnlockAt(j)

C9_Witness ==
    /\ op = "mass_erase"
    /\ result = "returned"
    /\ Len(Writes) = 13
    /\ Writes[13] = W16(OB_USER_ADDR, 255)

----------------------------------------------------------------------------
(* C10 *)

\* C10: _option_erase called on its own never raises; it returns True
\* exactly when a status read of its poll loop saw the busy bit clear, and
\* otherwise, once more than the timeout has elapsed with every read busy,
\* returns False after logging one error.
C10_OptionEraseResult ==
    op = "_option_erase" =>
        /\ result # "raised"
        /\ exc = ""
        /\ result = "returned" =>
            /\ ret \in {"True", "False"}
            /\ ret = "True" <=> \E i \in StatReadIdx : ~SawBusy(i)
            /\ ret = "True" => log = <<>>
            /\ ret = "False" =>
                /\ log = <<"Option byte erase timeout">>
                /\ clock - to_start > 100
        /\ result = "running" => \A i \in StatReadIdx : SawBusy(i)

C10_Witness ==
    /\ op = "_option_erase"
    /\ result = "returned"
    /\ ret = "True"
    /\ Cardinality(StatReadIdx) = 101

----------------------------------------------------------------------------
(* C11 *)

\* C11: a locked mass_erase that fails, by _option_erase returning False or
\* by the programming poll timing out after the 0x5AA5 and user-word writes,
\* ends by raising TargetError("unable to unlock device"); once an error is
\* logged it never returns normally.
C11_FailedLockedPathFatal ==
    InLockedBranch =>
        /\ log # <<>> => result # "returned"
        /\ (log # <<>> /\ pc = <<>>) =>
            /\ result = "raised"
            /\ exc = "unable to unlock device"
        /\ result = "raised" =>
            /\ exc = "unable to unlock device"
            /\ log \in { <<"Option byte erase timeout", "option byte unlock fail">>,
                         <<"mass erase failed">> }
        /\ result = "returned" => (log = <<>> /\ exc = "")
        /\ (log # <<>> /\ log[Len(log)] = "mass erase failed") =>
            /\ Len(Writes) = 13
            /\ Writes[12] = W16(OB_SPC_ADDR, 23205)
            /\ Writes[13].addr = OB_USER_ADDR

C11_Witness ==
    /\ InLockedBranch
    /\ result = "raised"
    /\ exc = "unable to unlock device"
    /\ log = <<"mass erase failed">>
    /\ Len(Writes) = 13

----------------------------------------------------------------------------
(* C12 *)

\* the code runs on: a call that has started keeps taking its next step
FairSpec == Spec /\ WF_vars(Next)

\* status reads made since the latest write
PollReads ==
    LET last == IF WriteIdx = {} THEN 0
                ELSE CHOOSE w \in WriteIdx : \A u \in WriteIdx : u <= w
    IN  Cardinality({i \in StatReadIdx : i > last})

\* C12: _option_erase and mass_erase always come to an end, whatever the
\* busy bit does: a poll loop makes at most 101 status reads (one per 0.1
\* of the 10.0 timeout, and the one at 10.0 itself), and every call that is
\* running eventually returns or raises.
C12_PollsTerminate ==
    /\ [](op \in {"_option_erase", "mass_erase"} =>
            /\ PollReads <= 101
            /\ clock - to_start <= 101)
    /\ (result = "running") ~> (result \in {"returned", "raised"})

C12_Witness ==
    /\ op = "mass_erase"
    /\ result = "raised"
    /\ PollReads = 101
    /\ Cardinality(StatReadIdx) = 101

----------------------------------------------------------------------------
(* C15 *)

\* the writes of a locked mass_erase that restores the user word u
MassEraseWrites(u) ==
    OptionEraseWrites \o OptionUnlockSeq
        \o <<W32(FMC_CTL, CtlProgram), W16(OB_SPC_ADDR, 23205), W16(OB_USER_ADDR, u)>>

IsStatRead(a) == a.kind = "read32" /\ a.addr = FMC_STAT

\* C15: a locked mass_erase whose two polls both see busy clear makes
\* exactly these writes in this order: KEY1, KEY2 to FMC_KEY; KEY1, KEY2 to
\* FMC_OBKEY; OBER|OBWEN and OBER|OBWEN|START to FMC_CTL; the four key
\* writes again; OBPG|OBWEN to FMC_CTL; 0x5AA5 to 0x1FFFF800; the saved user
\* word to 0x1FFFF802.  The writes of each group are adjacent in the trace,
\* the first poll's reads lie between the two groups and the second poll's
\* reads all come after the last write.
C15_LockedWriteTrace ==
    InLockedBranch =>
        /\ Len(trace) >= 2 => IsPrefix(Writes, MassEraseWrites(trace[2].val[2]))
        /\ result = "returned" =>
            LET u == trace[2].val[2]
                n == Len(trace)
                k == CHOOSE i \in 9..n : IsWrite(trace[i])
                        /\ \A j \in 9..(i - 1) : ~IsWrite(trace[j])
            IN  /\ Writes = MassEraseWrites(u)
                /\ trace[2] = Access("read16", OB_USER_ADDR, W(0, u))
                /\ SubSeq(trace, 3, 8) = OptionEraseWrites
                /\ k > 9
                /\ \A j \in 9..(k - 1) : IsStatRead(trace[j])
                /\ SubSeq(trace, k, k + 6) = SubSeq(MassEraseWrites(u), 7, 13)
                /\ n > k + 6
                /\ \A j \in (k + 7)..n : IsStatRead(trace[j])

C15_Witness ==
    /\ InLockedBranch
    /\ result = "returned"
    /\ Writes = MassEraseWrites(255)
    /\ Len(trace) = 2 + 13 + 2

----------------------------------------------------------------------------
(* C16 *)

\* the program is in one of the two busy-poll loops
Polling == At("oe152") \/ At("me180")

\* C16: from the start of a busy-poll loop until the loop is left, a step
\* makes no access or one read of FMC_STAT: no write of any kind, and the
\* device's option bytes stay as they are.
C16_PollOnlyReadsStatus ==
    [][Polling =>
        /\ \/ trace' = trace
           \/ /\ Len(trace') = Len(trace) + 1
              /\ SubSeq(trace', 1, Len(trace)) = trace
              /\ trace'[Len(trace')].kind = "read32"
              /\ trace'[Len(trace')].addr = FMC_STAT
        /\ obUser' = obUser
        /\ obstat' = obstat]_vars

C16_Witness ==
    /\ At("oe152")
    /\ op = "mass_erase"
    /\ clock - to_start = 101
    /\ Cardinality(StatReadIdx) = 101

----------------------------------------------------------------------------
(* C17 *)

\* C17: in one call of mass_erase, whatever its outcome, the start bit is
\* written to the control register at most once and only as
\* OBER|OBWEN|START, OBPG|OBWEN is written at most once, and 0x1FFFF800 and
\* 0x1FFFF802 are written at most once each.
C17_NoRetry ==
    op = "mass_erase" =>
        LET starts == {i \in WriteIdx : IsTrigger(trace[i])}
            progs == {i \in WriteIdx : trace[i] = W32(FMC_CTL, CtlProgram)}
            spc == {i \in WriteIdx : trace[i].addr = OB_SPC_ADDR}
            usr == {i \in WriteIdx : trace[i].addr = OB_USER_ADDR}
        IN  /\ Cardinality(starts) <= 1
            /\ \A i \in starts : trace[i].val = CtlEraseStart
            /\ Cardinality(progs) <= 1
            /\ \A i \in progs : \A t \in starts : t < i
            /\ Cardinality(spc) <= 1
            /\ Cardinality(usr) <= 1

C17_Witness ==
    /\ op = "mass_erase"
    /\ result = "raised"
    /\ Cardinality({i \in WriteIdx : IsTrigger(trace[i])}) = 1
    /\ Cardinality({i \in WriteIdx : trace[i].addr = OB_USER_ADDR}) = 1

----------------------------------------------------------------------------
(* C18 *)

\* C18: mass_erase reads FMC_OBSTAT once, as its first access, and follows
\* one branch only: after a locked read the FlashEraser is never invoked,
\* whether the call returns or raises, and after a not-locked read nothing
\* of the option-byte sequence happens (no further access, no error logged).
C18_BranchesExclusive ==
    op = "mass_erase" =>
        /\ \A i \in Idx : trace[i].addr = FMC_OBSTAT => i = 1
        /\ trace # <<>> => trace[1] = Access("read32", FMC_OBSTAT, obstat)
        /\ InLockedBranch => eraser = <<>>
        /\ (trace # <<>> /\ ~InLockedBranch) =>
            /\ Len(trace) = 1
            /\ log = <<>>
            /\ Len(eraser) <= 1
        /\ eraser # <<>> => (Len(trace) = 1 /\ Bit(obstat[2], 1) = 0)
        /\ (result \in {"returned", "raised"}) =>
            (eraser # <<>> <=> Bit(obstat[2], 1) = 0)

C18_Witness ==
    /\ InLockedBranch
    /\ result = "raised"
    /\ eraser = <<>>
    /\ Len(log) = 2
    /\ obstat = W(65535, 65535)

----------------------------------------------------------------------------
(* C13 *)

\* a < x < b
StrictlyIn(x, a, b) == a < x /\ x < b

\* C13: the erase units that the sector map lays out over the flash region
\* (0x400 from offset 0, repeated) add up to the flash region's length
\* 0x10000, and both page buffer addresses lie strictly inside the RAM
\* region 0x20000000 .. 0x20002000.
C13_SectorsSumAndBuffers ==
    /\ SumSizes(sectors) <= 65536
    /\ ~ENABLED EnumerateSector =>
        /\ SumSizes(sectors) = 65536
        /\ SumSizes(sectors) = FlashRegion.length
        /\ SumSizes(sectors) = flash_size
    /\ \A i \in 1..Len(sectors) :
        /\ sectors[i].size = FlashRegion.blocksize
        /\ sectors[i].start = FlashRegion.start + (i - 1) * 1024
    /\ Len(page_buffers) = 2
    /\ \A i \in 1..Len(page_buffers) :
        StrictlyIn(page_buffers[i], 536870912, 536870912 + 8192)
    /\ \A i \in 1..Len(pages) :
        StrictlyIn(pages[i].buffer, RamRegion.start, RamRegion.start + RamRegion.length)

C13_Witness ==
    /\ Len(sectors) = 64
    /\ ~ENABLED EnumerateSector
    /\ Len(pages) >= 2

----------------------------------------------------------------------------
(* C14 *)

\* C14: the static base lies within the loaded instructions (from the load
\* address up to the load address plus 4 bytes per instruction word),
\* begin_data and both page buffers lie within the RAM region, and the
\* minimum program length equals or evenly divides the page size; so every
\* page handed over is a whole number of program units in a buffer in RAM.
C14_DescriptorConsistent ==
    /\ load_address <= static_base
    /\ static_base <= load_address + 4 * instructions_len
    /\ RamRegion.start <= begin_data
    /\ begin_data < RamRegion.start + RamRegion.length
    /\ \A i \in 1..Len(page_buffers) :
        /\ RamRegion.start <= page_buffers[i]
        /\ page_buffers[i] < RamRegion.start + RamRegion.length
    /\ min_program_length > 0
    /\ min_program_length <= page_size
    /\ page_size % min_program_length = 0
    /\ \A i \in 1..Len(pages) :
        /\ pages[i].length % min_program_length = 0
        /\ RamRegion.start <= pages[i].buffer
        /\ pages[i].buffer + pages[i].length <= RamRegion.start + RamRegion.length

C14_Witness ==
    /\ Len(pages) = 64
    /\ ~ENABLED ProgramPage
    /\ pages[64].addr + pages[64].length = flash_start + flash_size

----------------------------------------------------------------------------
(* C19 *)

Region(lo, hi) == [lo |-> lo, hi |-> hi]
Disjoint(a, b) == a.hi <= b.lo \/ b.hi <= a.lo
InRam(a) ==
    /\ 536870912 <= a.lo
    /\ a.lo < a.hi
    /\ a.hi <= 536870912 + 8192

Footprint == Region(load_address, load_address + 4 * instructions_len)
Stack == Region(end_stack, begin_stack)
BufferAt(b) == Region(b, b + page_size)
RamLayout == <<Footprint, BufferAt(page_buffers[1]), BufferAt(page_buffers[2]), Stack>>

\* C19: the loaded instructions, the two page buffers of page_size bytes
\* and the stack [end_stack, begin_stack) are pairwise disjoint and inside
\* the RAM region [0x20000000, 0x20002000), and the five entry points lie
\* inside the loaded instructions; so the buffer of every programmed page
\* is clear of the code, of the stack and of the buffer used just before.
C19_RamLayoutDisjoint ==
    /\ \A i \in 1..4 : InRam(RamLayout[i])
    /\ \A i \in 1..4 : \A j \in (i + 1)..4 : Disjoint(RamLayout[i], RamLayout[j])
    /\ \A e \in {pc_init, pc_unInit, pc_program_page, pc_erase_sector, pc_eraseAll} :
        Footprint.lo <= e /\ e < Footprint.hi
    /\ \A i \in 1..Len(pages) :
        LET b == Region(pages[i].buffer, pages[i].buffer + pages[i].length)
        IN  /\ Disjoint(b, Footprint)
            /\ Disjoint(b, Stack)
            /\ i > 1 => Disjoint(b, Region(pages[i - 1].buffer,
                                           pages[i - 1].buffer + pages[i - 1].length))

C19_Witness ==
    /\ Len(pages) = 2
    /\ pages[1].buffer = 536871520
    /\ pages[2].buffer = 536872544

====
